---- MODULE Spec2Model ----
(***************************************************************************)
(* Three-tier conversation memory (src/src/memory_system.py).              *)
(*                                                                         *)
(* State: the turn counter and the three tiers of ThreeTierMemorySystem    *)
(* (SensoryMemory.turns, ShortTermMemory.compressed_turns,                 *)
(* LongTermMemory.memories + entity_index), plus the capacities given to   *)
(* the tier constructors.  A text is the sequence of its tokens, so that   *)
(* TokenCounter.count is Len and TokenCounter.truncate is a prefix.  The   *)
(* 'timestamp' fields (datetime.now()) are left out: nothing reads them.   *)
(*                                                                         *)
(* The summarizer (llm_compressor.generate) is an external collaborator:   *)
(* each call either raises or returns some text.                           *)
(***************************************************************************)
EXTENDS Integers, Sequences, FiniteSets, TLC

VARIABLES
    current_turn,       \* ThreeTierMemorySystem.current_turn
    sensory,            \* SensoryMemory.turns
    short_term,         \* ShortTermMemory.compressed_turns
    memories,           \* LongTermMemory.memories
    entity_index,       \* LongTermMemory.entity_index (dict: entity -> ids)
    sensory_max_turns,  \* SensoryMemory.max_turns
    short_max_turns,    \* ShortTermMemory.max_turns
    max_memories,       \* LongTermMemory.max_memories
    ingested,           \* history: the arguments of every store_turn call
    trace,              \* history: how many evictions/insertions happened
    last_step,          \* history: what the latest call evicted/inserted
    returned,           \* history: the latest call, how it ended, its result
    snapshot,           \* the file export_state writes and load_state reads
    threads             \* callers inside store_turn: their position and locals

vars == <<current_turn, sensory, short_term, memories, entity_index,
          sensory_max_turns, short_max_turns, max_memories,
          ingested, trace, last_step, returned, snapshot, threads>>

----------------------------------------------------------------------------
(* Bounds of the model *)

MaxTurns == 6
MaxFaultTurns == 4      \* turns stored when the summarizer may return None
MaxPersistTurns == 3    \* store_turn calls in a run with exports and loads
MaxExports == 1         \* export_state calls in such a run
MaxRetrieveTurns == 5   \* turns in a run with retrievals
MaxThreadCalls == 4     \* store_turn calls in a run with several callers
MaxEntities == 2        \* entities in a list handed to _entity_overlap
MaxSearchTurns == 3     \* turns in a run with entity searches
MaxConfigTurns == 3     \* turns in a run over arbitrary capacities

(* Program constants *)

DefaultSensoryMaxTurns == 2
DefaultShortMaxTurns == 5
DefaultMaxMemories == 300
CompressionRatioNum == 1
CompressionRatioDen == 2
UltraMaxTokens == 100

(* Tier capacities (sensory, short-term, long-term) the tiers are built with *)
Configs ==
    { <<1, 1, 1>>,
      <<2, 1, 2>>,
      <<2, 2, 10>>,
      <<DefaultSensoryMaxTurns, DefaultShortMaxTurns, DefaultMaxMemories>> }

(* The turns a caller may submit: user_message, assistant_response, entities *)
TurnInputs ==
    { [user_message |-> <<"hi">>,
       assistant_response |-> <<"yo">>,
       entities |-> <<"Q3">>],
      [user_message |-> <<"what", "was", "revenue">>,
       assistant_response |-> <<"revenue", "was", "5M", "in", "Q3">>,
       entities |-> <<>>] }

(* What one call of llm_compressor.generate may do *)
Raises == [kind |-> "raise"]
Returns(text) == [kind |-> "return", text |-> text]

SummarizerOutcomes ==
    { Raises,
      Returns(<<>>),
      Returns(<<"asked", "revenue">>),
      Returns(<<"the", "user", "asked", "what", "the", "revenue", "was",
                "and", "was", "told">>) }

UltraOutcomes ==
    { Raises, Returns(<<"revenue">>) }

----------------------------------------------------------------------------
(* TokenCounter *)

TokenCount(text) == Len(text)

Truncate(text, max_tokens) ==
    IF Len(text) <= max_tokens THEN text ELSE SubSeq(text, 1, max_tokens)

(* f"{user_message} {assistant_response}": the separating blank is part of
   the token that follows it; alone at the end it is a token of its own *)
SpaceJoin(a, b) == IF b = <<>> THEN a \o <<" ">> ELSE a \o b

(* f"User: {user_message}\nAssistant: {assistant_response}" *)
LabelledTurn(a, b) == <<"User", ":">> \o a \o <<"\n", "Assistant", ":">> \o b

(* dict.get('entities', []) *)
GetEntities(d) == IF "entities" \in DOMAIN d THEN d.entities ELSE <<>>

Range(s) == { s[i] : i \in 1..Len(s) }

NoTurn == [turn_number |-> 0]

----------------------------------------------------------------------------
(* Faulty variant of the appended dict: turns are numbered from 0 *)
SensoryEntryZeroBased(turn_data) ==
    [turn_number |-> turn_data.turn_number - 1,
     user_message |-> turn_data.user_message,
     assistant_response |-> turn_data.assistant_response,
     tool_output |-> turn_data.tool_output,
     tokens |-> TokenCount(SpaceJoin(turn_data.user_message,
                                     turn_data.assistant_response))]

(* the dict SensoryMemory.store appends: it has no 'entities' key *)
SensoryEntry(turn_data) ==
    [turn_number |-> turn_data.turn_number,
     user_message |-> turn_data.user_message,
     assistant_response |-> turn_data.assistant_response,
     tool_output |-> turn_data.tool_output,
     tokens |-> TokenCount(SpaceJoin(turn_data.user_message,
                                     turn_data.assistant_response))]

(* Faulty variants of SensoryMemory.store *)
\* evicts already at max_turns (>= for >)
SensoryStoreEager(turns, max_turns, turn_data) ==
    LET appended == Append(turns, SensoryEntry(turn_data))
    IN  IF Len(appended) >= max_turns
        THEN [turns |-> Tail(appended), promoted |-> Head(appended)]
        ELSE [turns |-> appended, promoted |-> NoTurn]

\* hands on the oldest entry without removing it (turns[0] for turns.pop(0))
SensoryStorePeek(turns, max_turns, turn_data) ==
    LET appended == Append(turns, SensoryEntry(turn_data))
    IN  IF Len(appended) > max_turns
        THEN [turns |-> appended, promoted |-> Head(appended)]
        ELSE [turns |-> appended, promoted |-> NoTurn]

(* SensoryMemory.store: append, then pop the oldest when over max_turns *)
SensoryStore(turns, max_turns, turn_data) ==
    LET appended == Append(turns, SensoryEntry(turn_data))
    IN  IF Len(appended) > max_turns
        THEN [turns |-> Tail(appended), promoted |-> Head(appended)]
        ELSE [turns |-> appended, promoted |-> NoTurn]

(* `if promoted_from_sensory:` / `if promoted_from_shortterm:` *)
Promoted(entry) == entry # NoTurn

(* Faulty variant of ShortTermMemory._compress_turn *)
\* the fallback keeps the whole labelled turn (no truncation)
CompressTurnUntruncated(turn_data, outcome) ==
    IF outcome.kind = "return"
    THEN outcome.text
    ELSE LabelledTurn(turn_data.user_message, turn_data.assistant_response)

(* ShortTermMemory._compress_turn: the summarizer's text, whatever it is;
   when the summarizer raises, the labelled turn truncated to
   int(count * compression_ratio) tokens *)
CompressTurn(turn_data, outcome) ==
    IF outcome.kind = "return"
    THEN outcome.text
    ELSE LET combined == LabelledTurn(turn_data.user_message,
                                      turn_data.assistant_response)
             target_tokens == (TokenCount(combined) * CompressionRatioNum)
                                  \div CompressionRatioDen
         IN  Truncate(combined, target_tokens)

(* the dict ShortTermMemory.compress_and_store appends *)
CondensedEntry(turn_data, compressed) ==
    [turn_number |-> turn_data.turn_number,
     original_tokens |-> TokenCount(SpaceJoin(turn_data.user_message,
                                              turn_data.assistant_response)),
     compressed_summary |-> compressed,
     compressed_tokens |-> TokenCount(compressed),
     entities |-> GetEntities(turn_data)]

(* Faulty variants of ShortTermMemory.compress_and_store *)
\* promotes the newest entry (pop() for pop(0))
ShortTermStorePopNewest(compressed_turns, max_turns, turn_data, outcome) ==
    LET entry == CondensedEntry(turn_data, CompressTurn(turn_data, outcome))
        appended == Append(compressed_turns, entry)
    IN  IF Len(appended) > max_turns
        THEN [compressed_turns |-> compressed_turns, promoted |-> entry]
        ELSE [compressed_turns |-> appended, promoted |-> NoTurn]

\* promotes already at max_turns (>= for >)
ShortTermStoreEager(compressed_turns, max_turns, turn_data, outcome) ==
    LET entry == CondensedEntry(turn_data, CompressTurn(turn_data, outcome))
        appended == Append(compressed_turns, entry)
    IN  IF Len(appended) >= max_turns
        THEN [compressed_turns |-> Tail(appended), promoted |-> Head(appended)]
        ELSE [compressed_turns |-> appended, promoted |-> NoTurn]

\* stores nothing when the summarizer raises
ShortTermStoreDropOnRaise(compressed_turns, max_turns, turn_data, outcome) ==
    LET entry == CondensedEntry(turn_data, CompressTurn(turn_data, outcome))
        appended == IF outcome.kind = "raise" THEN compressed_turns
                    ELSE Append(compressed_turns, entry)
    IN  IF Len(appended) > max_turns
        THEN [compressed_turns |-> Tail(appended), promoted |-> Head(appended)]
        ELSE [compressed_turns |-> appended, promoted |-> NoTurn]

(* ShortTermMemory.compress_and_store *)
ShortTermStore(compressed_turns, max_turns, turn_data, outcome) ==
    LET compressed == CompressTurn(turn_data, outcome)
        appended == Append(compressed_turns,
                           CondensedEntry(turn_data, compressed))
    IN  IF Len(appended) > max_turns
        THEN [compressed_turns |-> Tail(appended), promoted |-> Head(appended)]
        ELSE [compressed_turns |-> appended, promoted |-> NoTurn]

(* LongTermMemory._ultra_compress *)
UltraCompress(turn_data, outcome) ==
    LET input_text ==
            IF "compressed_summary" \in DOMAIN turn_data
            THEN turn_data.compressed_summary
            ELSE turn_data.user_message \o <<"\n">> \o turn_data.assistant_response
    IN  IF outcome.kind = "return"
        THEN outcome.text
        ELSE Truncate(input_text, UltraMaxTokens)

(* for entity in entities: entity_index.setdefault(entity, []).append(id) *)
RECURSIVE IndexAdd(_, _, _)
IndexAdd(index, entities, memory_id) ==
    IF entities = <<>>
    THEN index
    ELSE LET entity == Head(entities)
             old == IF entity \in DOMAIN index THEN index[entity] ELSE <<>>
             added == [e \in DOMAIN index \cup {entity} |->
                          IF e = entity THEN Append(old, memory_id)
                          ELSE index[e]]
         IN  IndexAdd(added, Tail(entities), memory_id)

(* for entity in oldest.entities: drop oldest.id from entity_index[entity] *)
IndexRemove(index, entities, memory_id) ==
    LET Keep(mid) == mid # memory_id
    IN  [e \in DOMAIN index |->
            IF e \in Range(entities) THEN SelectSeq(index[e], Keep)
            ELSE index[e]]

(* memory_entry of LongTermMemory.archive_turn; the id is len(memories) *)
MemoryEntry(mems, turn_data, outcome) ==
    [id |-> Len(mems),
     turn_number |-> turn_data.turn_number,
     ultra_summary |-> UltraCompress(turn_data, outcome),
     entities |-> GetEntities(turn_data),
     tokens |-> TokenCount(UltraCompress(turn_data, outcome))]

(* Faulty variants of LongTermMemory.archive_turn *)
\* never enforces max_memories
ArchiveTurnNoLimit(mems, index, limit, turn_data, outcome) ==
    [memories |-> Append(mems, MemoryEntry(mems, turn_data, outcome)),
     entity_index |-> IndexAdd(index, GetEntities(turn_data), Len(mems)),
     discarded |-> NoTurn]

\* discards the newest memory (pop() for pop(0))
ArchiveTurnPopNewest(mems, index, limit, turn_data, outcome) ==
    LET entry == MemoryEntry(mems, turn_data, outcome)
        indexed == IndexAdd(index, GetEntities(turn_data), entry.id)
    IN  IF Len(mems) + 1 > limit
        THEN [memories |-> mems,
              entity_index |->
                  IndexRemove(indexed, GetEntities(entry), entry.id),
              discarded |-> entry]
        ELSE [memories |-> Append(mems, entry),
              entity_index |-> indexed,
              discarded |-> NoTurn]

(* LongTermMemory.archive_turn *)
ArchiveTurn(mems, index, limit, turn_data, outcome) ==
    LET memory_id == Len(mems)
        appended == Append(mems, MemoryEntry(mems, turn_data, outcome))
        indexed == IndexAdd(index, GetEntities(turn_data), memory_id)
    IN  IF Len(appended) > limit
        THEN LET oldest == Head(appended)
             IN  [memories |-> Tail(appended),
                  entity_index |->
                      IndexRemove(indexed, GetEntities(oldest), oldest.id),
                  discarded |-> oldest]
        ELSE [memories |-> appended,
              entity_index |-> indexed,
              discarded |-> NoTurn]

----------------------------------------------------------------------------
(* No file written yet *)
NoFile == [written |-> FALSE, exports |-> 0]

(* Callers of one ThreeTierMemorySystem instance *)
Threads == {1, 2}
Idle == [pc |-> "idle"]

(* ThreeTierMemorySystem.__init__, with the capacities of the tiers *)
Init ==
    /\ current_turn = 0
    /\ sensory = <<>>
    /\ short_term = <<>>
    /\ memories = <<>>
    /\ entity_index = <<>>
    /\ \E c \in Configs :
          /\ sensory_max_turns = c[1]
          /\ short_max_turns = c[2]
          /\ max_memories = c[3]
    /\ ingested = <<>>
    /\ trace = [sensory_evictions |-> 0, condensed_appends |-> 0,
                archive_appends |-> 0, archive_discards |-> 0]
    /\ last_step = [from_sensory |-> 0, from_short_term |-> 0,
                    discarded |-> NoTurn]
    /\ returned = [op |-> "init"]
    /\ snapshot = NoFile
    /\ threads = [t \in Threads |-> Idle]

Bit(b) == IF b THEN 1 ELSE 0

(* What the history keeps of a discarded ArchivedMemory *)
Summary(entry) ==
    IF entry = NoTurn THEN NoTurn
    ELSE [id |-> entry.id, turn_number |-> entry.turn_number,
          entities |-> entry.entities]

(* ThreeTierMemorySystem.store_turn *)
StoreTurn ==
    /\ current_turn < MaxTurns
    /\ \E inp \in TurnInputs, o1 \in SummarizerOutcomes, o2 \in UltraOutcomes :
          LET turn_data == [turn_number |-> current_turn + 1,
                            user_message |-> inp.user_message,
                            assistant_response |-> inp.assistant_response,
                            tool_output |-> <<>>,
                            entities |-> inp.entities]
              s  == SensoryStore(sensory, sensory_max_turns, turn_data)
              st == IF Promoted(s.promoted)
                    THEN ShortTermStore(short_term, short_max_turns,
                                        s.promoted, o1)
                    ELSE [compressed_turns |-> short_term, promoted |-> NoTurn]
              lt == IF Promoted(st.promoted)
                    THEN ArchiveTurn(memories, entity_index, max_memories,
                                     st.promoted, o2)
                    ELSE [memories |-> memories,
                          entity_index |-> entity_index,
                          discarded |-> NoTurn]
          IN  /\ current_turn' = current_turn + 1
              /\ sensory' = s.turns
              /\ short_term' = st.compressed_turns
              /\ memories' = lt.memories
              /\ entity_index' = lt.entity_index
              /\ ingested' = Append(ingested, inp)
              /\ trace' =
                    [sensory_evictions |->
                        trace.sensory_evictions + Bit(Promoted(s.promoted)),
                     condensed_appends |->
                        trace.condensed_appends
                          + Len(st.compressed_turns) + Bit(Promoted(st.promoted))
                          - Len(short_term),
                     archive_appends |->
                        trace.archive_appends
                          + Len(lt.memories) + Bit(Promoted(lt.discarded))
                          - Len(memories),
                     archive_discards |->
                        trace.archive_discards + Bit(Promoted(lt.discarded))]
              /\ last_step' = [from_sensory |-> s.promoted.turn_number,
                               from_short_term |-> st.promoted.turn_number,
                               discarded |-> Summary(lt.discarded)]
              /\ returned' =
                    [op |-> "store_turn", raised |-> FALSE,
                     summarizer |-> IF Promoted(s.promoted) THEN o1.kind
                                    ELSE "unused",
                     ultra |-> IF Promoted(st.promoted) THEN o2.kind
                               ELSE "unused"]
    /\ UNCHANGED <<sensory_max_turns, short_max_turns, max_memories,
                   snapshot, threads>>

Next == StoreTurn

Spec == Init /\ [][Next]_vars

----------------------------------------------------------------------------
(* A summarizer that may also return no text at all (None).  _compress_turn
   and _ultra_compress hand None back, and token_counter.count(None) raises
   while the entry is being built: store_turn ends with that exception, the
   tier about to receive the entry is untouched, and what was done before
   (counter, append, pop) stays done. *)
ReturnsNothing == [kind |-> "none"]

StoreTurnNoText ==
    /\ current_turn < MaxFaultTurns
    /\ \E inp \in TurnInputs,
          o1 \in SummarizerOutcomes \cup {ReturnsNothing},
          o2 \in UltraOutcomes \cup {ReturnsNothing} :
          LET turn_data == [turn_number |-> current_turn + 1,
                            user_message |-> inp.user_message,
                            assistant_response |-> inp.assistant_response,
                            tool_output |-> <<>>,
                            entities |-> inp.entities]
              s  == SensoryStore(sensory, sensory_max_turns, turn_data)
              failsShort == Promoted(s.promoted) /\ o1 = ReturnsNothing
              st == IF Promoted(s.promoted) /\ ~failsShort
                    THEN ShortTermStore(short_term, short_max_turns,
                                        s.promoted, o1)
                    ELSE [compressed_turns |-> short_term, promoted |-> NoTurn]
              failsLong == Promoted(st.promoted) /\ o2 = ReturnsNothing
          IN  /\ failsShort \/ failsLong
              /\ current_turn' = current_turn + 1
              /\ sensory' = s.turns
              /\ short_term' = st.compressed_turns
              /\ UNCHANGED <<memories, entity_index>>
              /\ ingested' = Append(ingested, inp)
              /\ trace' =
                    [trace EXCEPT
                       !.sensory_evictions = @ + Bit(Promoted(s.promoted)),
                       !.condensed_appends =
                           @ + Len(st.compressed_turns)
                             + Bit(Promoted(st.promoted)) - Len(short_term)]
              /\ last_step' = [from_sensory |-> s.promoted.turn_number,
                               from_short_term |-> st.promoted.turn_number,
                               discarded |-> NoTurn]
              /\ returned' =
                    [op |-> "store_turn", raised |-> TRUE,
                     summarizer |-> o1.kind,
                     ultra |-> IF failsLong THEN o2.kind ELSE "unused"]
    /\ UNCHANGED <<sensory_max_turns, short_max_turns, max_memories,
                   snapshot, threads>>

StoreTurnWithText == current_turn < MaxFaultTurns /\ StoreTurn

NextFaults == StoreTurnWithText \/ StoreTurnNoText

SpecFaults == Init /\ [][NextFaults]_vars

----------------------------------------------------------------------------
(* export_state / load_state.  json.dump writes a dict as the set of its
   key/value members and json.load builds the dict back from them; lists,
   numbers and strings are written as they are. *)

JsonObject(dict) == { <<key, dict[key]>> : key \in DOMAIN dict }

JsonDict(members) ==
    [key \in { m[1] : m \in members } |->
        (CHOOSE m \in members : m[1] = key)[2]]

TierState ==
    <<current_turn, sensory, short_term, memories, entity_index>>

(* ThreeTierMemorySystem.export_state: the document written *)
ExportDocument ==
    [current_turn |-> current_turn,
     sensory |-> sensory,
     short_term |-> short_term,
     long_term |-> memories,
     entity_index |-> JsonObject(entity_index)]

ExportState ==
    /\ snapshot.exports < MaxExports
    /\ snapshot' = [written |-> TRUE,
                    exports |-> snapshot.exports + 1,
                    document |-> ExportDocument,
                    state_at_export |-> TierState]
    /\ returned' = [op |-> "export_state", raised |-> FALSE]
    /\ UNCHANGED <<current_turn, sensory, short_term, memories, entity_index,
                   sensory_max_turns, short_max_turns, max_memories,
                   ingested, trace, last_step, threads>>

(* The keys load_state reads, in the order it assigns them *)
SnapshotKeys ==
    <<"current_turn", "sensory", "short_term", "long_term", "entity_index">>

Without(document, key) ==
    [k \in DOMAIN document \ {key} |-> document[k]]

(* How many of the assignments of load_state run before state[key] raises
   KeyError; a file json.load cannot parse has no key at all *)
RECURSIVE KeysRead(_, _)
KeysRead(document, i) ==
    IF i > Len(SnapshotKeys) \/ SnapshotKeys[i] \notin DOMAIN document
    THEN i - 1
    ELSE KeysRead(document, i + 1)

(* Faulty variant of load_state: the turn counter is not restored *)
LoadedStateNoCounter(document) ==
    LET n == KeysRead(document, 1)
    IN  [current_turn |-> current_turn,
         sensory |-> IF n >= 2 THEN document.sensory ELSE sensory,
         short_term |-> IF n >= 3 THEN document.short_term ELSE short_term,
         memories |-> IF n >= 4 THEN document.long_term ELSE memories,
         entity_index |-> IF n >= 5 THEN JsonDict(document.entity_index)
                          ELSE entity_index,
         raised |-> n < Len(SnapshotKeys)]

(* ThreeTierMemorySystem.load_state on a parsed document: five assignments
   in a row, each reading one key *)
LoadedState(document) ==
    LET n == KeysRead(document, 1)
    IN  [current_turn |-> IF n >= 1 THEN document.current_turn
                          ELSE current_turn,
         sensory |-> IF n >= 2 THEN document.sensory ELSE sensory,
         short_term |-> IF n >= 3 THEN document.short_term ELSE short_term,
         memories |-> IF n >= 4 THEN document.long_term ELSE memories,
         entity_index |-> IF n >= 5 THEN JsonDict(document.entity_index)
                          ELSE entity_index,
         raised |-> n < Len(SnapshotKeys)]

(* The files load_state may be given: the one export_state wrote, that file
   with one key missing, or a file that is not JSON *)
NotJson == [unparsable |-> TRUE]

Damages == {"intact", "not_json"} \cup Range(SnapshotKeys)

Damaged(document, damage) ==
    IF damage = "intact" THEN document
    ELSE IF damage = "not_json" THEN NotJson
    ELSE Without(document, damage)

LoadState ==
    /\ snapshot.written
    /\ \E damage \in Damages :
          LET loaded == LoadedState(Damaged(snapshot.document, damage))
          IN  /\ current_turn' = loaded.current_turn
              /\ sensory' = loaded.sensory
              /\ short_term' = loaded.short_term
              /\ memories' = loaded.memories
              /\ entity_index' = loaded.entity_index
              /\ returned' = [op |-> "load_state", raised |-> loaded.raised,
                              file |-> damage]
    /\ UNCHANGED <<sensory_max_turns, short_max_turns, max_memories,
                   ingested, trace, last_step, snapshot, threads>>

(* store_turn in a run with exports and loads: load_state moves the turn
   counter back, so the run is bounded by the calls made; the summarizer
   is one that always returns a text *)
StoreTurnPersist ==
    /\ Len(ingested) < MaxPersistTurns
    /\ StoreTurn
    /\ returned'.summarizer \in {"unused", "return"}
    /\ returned'.ultra \in {"unused", "return"}

NextPersist == StoreTurnPersist \/ ExportState \/ LoadState

(* the smallest tiers, so that a short run fills and overflows all three *)
InitPersist == Init /\ sensory_max_turns = 1 /\ max_memories = 1

SpecPersist == InitPersist /\ [][NextPersist]_vars

----------------------------------------------------------------------------
(* LongTermMemory used on its own: archive_turn called by a client that
   hands it condensed entries in turn order, with their entities *)

EntityLists == { <<>>, <<"Q3">>, <<"Q3", "revenue">> }

NextArchiveTurnNumber ==
    IF memories = <<>> THEN 1 ELSE memories[Len(memories)].turn_number + 1

ArchiveDirect ==
    /\ NextArchiveTurnNumber <= MaxTurns
    /\ \E ents \in EntityLists, o \in UltraOutcomes :
          LET summary == <<"asked", "revenue">>
              turn_data == [turn_number |-> NextArchiveTurnNumber,
                            original_tokens |-> 8,
                            compressed_summary |-> summary,
                            compressed_tokens |-> TokenCount(summary),
                            entities |-> ents]
              lt == ArchiveTurn(memories, entity_index, max_memories,
                                turn_data, o)
          IN  /\ memories' = lt.memories
              /\ entity_index' = lt.entity_index
              /\ trace' =
                    [trace EXCEPT
                       !.archive_appends =
                           @ + Len(lt.memories) + Bit(Promoted(lt.discarded))
                             - Len(memories),
                       !.archive_discards = @ + Bit(Promoted(lt.discarded))]
              /\ last_step' = [last_step EXCEPT
                                  !.discarded = Summary(lt.discarded)]
    /\ UNCHANGED <<current_turn, sensory, short_term, ingested,
                   sensory_max_turns, short_max_turns, max_memories,
                   returned, snapshot, threads>>

NextArchive == ArchiveDirect

SpecArchive == Init /\ [][NextArchive]_vars

----------------------------------------------------------------------------
(* Faulty variant of SensoryMemory.get_context: newest turn first *)
SensoryGetContextNewestFirst(turns) ==
    [i \in 1..Len(turns) |->
        <<"Turn", turns[Len(turns) + 1 - i].turn_number, "Recent",
          "User", turns[Len(turns) + 1 - i].user_message,
          "Assistant", turns[Len(turns) + 1 - i].assistant_response>>]

(* SensoryMemory.get_context: one block per turn, in list order, carrying
   the turn number and the two messages as stored *)
SensoryGetContext(turns) ==
    [i \in 1..Len(turns) |->
        <<"Turn", turns[i].turn_number, "Recent",
          "User", turns[i].user_message,
          "Assistant", turns[i].assistant_response>>]

(* ShortTermMemory.get_context *)
ShortTermGetContext(compressed_turns) ==
    [i \in 1..Len(compressed_turns) |->
        <<"Turn", compressed_turns[i].turn_number, "Compressed Summary",
          compressed_turns[i].compressed_summary,
          "Entities", GetEntities(compressed_turns[i])>>]

(* ThreeTierMemorySystem.get_recent_context *)
GetRecentContext ==
    [immediate |-> SensoryGetContext(sensory),
     compressed |-> ShortTermGetContext(short_term)]

----------------------------------------------------------------------------
(* HybridRetriever.  A score is kept exact: the weights are given in tenths,
   the semantic and entity parts form the fraction num/den, and the recency
   part is the weight times exp(-distance/5) in units of 1/RecencyUnit. *)

(* str.lower() on the words that occur *)
Lower(word) ==
    CASE word = "Q3" -> "q3"
      [] word = "5M" -> "5m"
      [] word = "Acme" -> "acme"
      [] word = "User" -> "user"
      [] word = "Assistant" -> "assistant"
      [] OTHER -> word

(* A word written with the colon that follows it *)
WithColon(word) ==
    CASE word = "user" -> "user:"
      [] word = "assistant" -> "assistant:"
      [] OTHER -> word

Blank == {" ", "\n"}

(* set(text.lower().split()): the words between blanks, a colon staying
   on the word it follows *)
SplitLower(text) ==
    { IF i < Len(text) /\ text[i + 1] = ":"
      THEN WithColon(Lower(text[i]))
      ELSE Lower(text[i]) :
        i \in { j \in 1..Len(text) : text[j] \notin Blank \cup {":"} } }

StopWords ==
    {"the", "a", "an", "and", "or", "but", "in", "on", "at", "to", "for",
     "of", "with", "by", "from", "as", "is", "was", "are", "were", "been",
     "be", "have", "has", "had"}

(* Faulty variant of _semantic_similarity: the stop words are left in *)
SemanticSimilarityWithStopWords(text1, text2) ==
    LET words1 == SplitLower(text1)
        words2 == SplitLower(text2)
    IN  IF words1 = {} \/ words2 = {}
        THEN [num |-> 0, den |-> 1]
        ELSE [num |-> Cardinality(words1 \cap words2),
              den |-> Cardinality(words1 \cup words2)]

(* HybridRetriever._semantic_similarity: Jaccard similarity of the word sets *)
SemanticSimilarity(text1, text2) ==
    LET words1 == SplitLower(text1) \ StopWords
        words2 == SplitLower(text2) \ StopWords
    IN  IF words1 = {} \/ words2 = {}
        THEN [num |-> 0, den |-> 1]
        ELSE [num |-> Cardinality(words1 \cap words2),
              den |-> Cardinality(words1 \cup words2)]

(* Faulty variant of _entity_overlap: the candidate is looked at first *)
EntityOverlapCandidateFirst(entities1, entities2) ==
    LET set1 == { Lower(e) : e \in Range(entities1) }
        set2 == { Lower(e) : e \in Range(entities2) }
    IN  IF set1 = {} THEN [num |-> 0, den |-> 1]
        ELSE IF entities2 = <<>> THEN [num |-> 1, den |-> 2]
        ELSE [num |-> Cardinality(set1 \cap set2), den |-> Cardinality(set2)]

(* Faulty variant of _entity_overlap: the entities are compared as written *)
EntityOverlapCaseSensitive(entities1, entities2) ==
    LET set1 == Range(entities1)
        set2 == Range(entities2)
    IN  IF entities2 = <<>> THEN [num |-> 1, den |-> 2]
        ELSE IF set1 = {} THEN [num |-> 0, den |-> 1]
        ELSE [num |-> Cardinality(set1 \cap set2), den |-> Cardinality(set2)]

(* Faulty variant of _entity_overlap: the overlap is divided by the number
   of entities of candidate and query together *)
EntityOverlapOfUnion(entities1, entities2) ==
    LET set1 == { Lower(e) : e \in Range(entities1) }
        set2 == { Lower(e) : e \in Range(entities2) }
    IN  IF entities2 = <<>> THEN [num |-> 1, den |-> 2]
        ELSE IF set1 = {} THEN [num |-> 0, den |-> 1]
        ELSE [num |-> Cardinality(set1 \cap set2),
              den |-> Cardinality(set1 \cup set2)]

(* HybridRetriever._entity_overlap *)
EntityOverlap(entities1, entities2) ==
    LET set1 == { Lower(e) : e \in Range(entities1) }
        set2 == { Lower(e) : e \in Range(entities2) }
    IN  IF entities2 = <<>> THEN [num |-> 1, den |-> 2]
        ELSE IF set1 = {} THEN [num |-> 0, den |-> 1]
        ELSE [num |-> Cardinality(set1 \cap set2), den |-> Cardinality(set2)]

(* math.exp(-distance / 5.0) for distance 0, 1, 2, ..., to four places *)
RecencyTable ==
    <<10000, 8187, 6703, 5488, 4493, 3679, 3012, 2466, 2019, 1653, 1353>>

RecencyUnit == RecencyTable[1]

(* Faulty variant of _recency_score: the decay runs the wrong way *)
RecencyScoreReversed(turn_number, current) ==
    RecencyTable[Len(RecencyTable) - (current - turn_number)]

(* HybridRetriever._recency_score *)
RecencyScore(turn_number, current) ==
    RecencyTable[(current - turn_number) + 1]

(* The weights a retriever may be built with, in tenths; the first is the
   default *)
DefaultWeights == [semantic |-> 4, entity |-> 3, recency |-> 3]

WeightChoices ==
    { DefaultWeights, [semantic |-> 10, entity |-> 0, recency |-> 0] }

(* HybridRetriever._compute_hybrid_score, times ten *)
ComputeHybridScore(candidate, clues, weights, current) ==
    LET semantic_score == SemanticSimilarity(candidate.summary, clues.clues)
        entity_score == EntityOverlap(candidate.entities, clues.entities)
        recency_score == RecencyScore(candidate.turn_number, current)
    IN  [num |-> weights.semantic * semantic_score.num * entity_score.den
                 + weights.entity * entity_score.num * semantic_score.den,
         den |-> semantic_score.den * entity_score.den,
         recency |-> weights.recency * recency_score]

(* a - b for two scores, up to a positive factor *)
ScoreDifference(a, b) ==
    (a.num * b.den - b.num * a.den) * RecencyUnit
      + (a.recency - b.recency) * a.den * b.den

(* Faulty variant of _get_candidate_memories: the sensory turns are
   candidates too *)
GetCandidateMemoriesWithSensory(compressed_turns, mems) ==
    [i \in 1..Len(sensory) |->
        [turn_number |-> sensory[i].turn_number,
         summary |-> SpaceJoin(sensory[i].user_message,
                               sensory[i].assistant_response),
         entities |-> GetEntities(sensory[i]),
         tokens |-> sensory[i].tokens,
         source |-> "sensory"]]
    \o
    [i \in 1..Len(compressed_turns) |->
        [turn_number |-> compressed_turns[i].turn_number,
         summary |-> compressed_turns[i].compressed_summary,
         entities |-> GetEntities(compressed_turns[i]),
         tokens |-> compressed_turns[i].compressed_tokens,
         source |-> "short_term"]]
    \o
    [i \in 1..Len(mems) |->
        [turn_number |-> mems[i].turn_number,
         summary |-> mems[i].ultra_summary,
         entities |-> GetEntities(mems[i]),
         tokens |-> mems[i].tokens,
         source |-> "long_term"]]

(* HybridRetriever._get_candidate_memories: short-term first, then
   long-term, each in list order *)
GetCandidateMemories(compressed_turns, mems) ==
    [i \in 1..Len(compressed_turns) |->
        [turn_number |-> compressed_turns[i].turn_number,
         summary |-> compressed_turns[i].compressed_summary,
         entities |-> GetEntities(compressed_turns[i]),
         tokens |-> compressed_turns[i].compressed_tokens,
         source |-> "short_term"]]
    \o
    [i \in 1..Len(mems) |->
        [turn_number |-> mems[i].turn_number,
         summary |-> mems[i].ultra_summary,
         entities |-> GetEntities(mems[i]),
         tokens |-> mems[i].tokens,
         source |-> "long_term"]]

(* list.sort(key=lambda x: -x[1]): a stable sort, so of two entries with
   the same score the one listed first stays first.  Place(sorted, x) puts
   x behind every entry whose score is not smaller. *)
RECURSIVE Place(_, _)
Place(sorted, x) ==
    IF sorted = <<>> THEN <<x>>
    ELSE IF ScoreDifference(sorted[1][2], x[2]) >= 0
         THEN <<sorted[1]>> \o Place(Tail(sorted), x)
         ELSE <<x>> \o sorted

RECURSIVE SortByScore(_)
SortByScore(scored) ==
    IF scored = <<>> THEN <<>>
    ELSE Place(SortByScore(SubSeq(scored, 1, Len(scored) - 1)),
               scored[Len(scored)])

(* Faulty variant of the slice: the entry at stop is taken too *)
SliceInclusive(list, stop) ==
    LET last == IF stop >= 0 THEN stop + 1 ELSE Len(list) + stop + 1
    IN  SubSeq(list, 1, IF last < Len(list) THEN last ELSE Len(list))

(* list[:stop]: a negative stop counts from the end *)
Slice(list, stop) ==
    LET last == IF stop >= 0 THEN stop ELSE Len(list) + stop
    IN  SubSeq(list, 1, IF last < Len(list) THEN last ELSE Len(list))

(* Faulty variant of retrieve_context: what the call before returned is
   remembered and left out *)
RetrieveContextUnseen(compressed_turns, mems, current, clues, max_results, weights) ==
    LET seen == IF returned.op = "retrieve_context"
                THEN Range(returned.results) ELSE {}
        Fresh(scored) == scored[1] \notin seen
        candidates == GetCandidateMemories(compressed_turns, mems)
        scored_candidates ==
            [i \in 1..Len(candidates) |->
                <<candidates[i],
                  ComputeHybridScore(candidates[i], clues, weights, current)>>]
        top_results == Slice(SortByScore(SelectSeq(scored_candidates, Fresh)),
                             max_results)
    IN  IF candidates = <<>> THEN <<>>
        ELSE [i \in 1..Len(top_results) |-> top_results[i][1]]

(* HybridRetriever.retrieve_context *)
RetrieveContext(compressed_turns, mems, current, clues, max_results, weights) ==
    LET candidates == GetCandidateMemories(compressed_turns, mems)
        scored_candidates ==
            [i \in 1..Len(candidates) |->
                <<candidates[i],
                  ComputeHybridScore(candidates[i], clues, weights, current)>>]
        top_results == Slice(SortByScore(scored_candidates), max_results)
    IN  IF candidates = <<>> THEN <<>>
        ELSE [i \in 1..Len(top_results) |-> top_results[i][1]]

(* The clues a caller may pass: a query sharing no word with any turn that
   names the entity Q3, and one about revenue naming no entity *)
ClueChoices ==
    { [clues |-> <<"budget", "forecast">>, entities |-> <<"Q3">>],
      [clues |-> <<"what", "was", "the", "revenue">>, entities |-> <<>>] }

TopKs == {-1, 0, 2, 5}

(* store_turn in a run with retrievals; the summarizer does not fail on
   the entries it is given to archive *)
StoreTurnRetrieve ==
    /\ current_turn < MaxRetrieveTurns
    /\ StoreTurn
    /\ returned'.ultra \in {"unused", "return"}

Retrieve ==
    /\ \E clues \in ClueChoices, max_results \in TopKs,
          weights \in WeightChoices :
          returned' =
             [op |-> "retrieve_context",
              clues |-> clues,
              max_results |-> max_results,
              weights |-> weights,
              candidates |-> Len(short_term) + Len(memories),
              results |-> RetrieveContext(short_term, memories, current_turn,
                                          clues, max_results, weights),
              raised |-> FALSE]
    /\ UNCHANGED <<current_turn, sensory, short_term, memories, entity_index,
                   sensory_max_turns, short_max_turns, max_memories,
                   ingested, trace, last_step, snapshot, threads>>

(* ThreeTierMemorySystem.get_recent_context called *)
RecentContext ==
    /\ returned' = [op |-> "get_recent_context",
                    context |-> GetRecentContext,
                    raised |-> FALSE]
    /\ UNCHANGED <<current_turn, sensory, short_term, memories, entity_index,
                   sensory_max_turns, short_max_turns, max_memories,
                   ingested, trace, last_step, snapshot, threads>>

NextRetrieve == StoreTurnRetrieve \/ Retrieve \/ RecentContext

(* A retriever over a system built with capacities (2, 2, 10) *)
InitRetrieve == Init /\ sensory_max_turns = 2 /\ short_max_turns = 2

SpecRetrieve == InitRetrieve /\ [][NextRetrieve]_vars

----------------------------------------------------------------------------
(* Tiers built with any capacities.  SensoryMemory.__init__,
   ShortTermMemory.__init__ and LongTermMemory.__init__ assign the number
   they are given to max_turns / max_memories and check nothing. *)

CapacityChoices == {-1, 0, 1}

Constructed(sensory_max, short_max, long_max) ==
    [sensory_max_turns |-> sensory_max,
     short_max_turns |-> short_max,
     max_memories |-> long_max,
     raised |-> FALSE]

InitConfig ==
    /\ current_turn = 0
    /\ sensory = <<>>
    /\ short_term = <<>>
    /\ memories = <<>>
    /\ entity_index = <<>>
    /\ \E a \in CapacityChoices, b \in CapacityChoices, c \in CapacityChoices :
          LET built == Constructed(a, b, c)
          IN  /\ sensory_max_turns = built.sensory_max_turns
              /\ short_max_turns = built.short_max_turns
              /\ max_memories = built.max_memories
              /\ returned = [op |-> "__init__", raised |-> built.raised]
    /\ ingested = <<>>
    /\ trace = [sensory_evictions |-> 0, condensed_appends |-> 0,
                archive_appends |-> 0, archive_discards |-> 0]
    /\ last_step = [from_sensory |-> 0, from_short_term |-> 0,
                    discarded |-> NoTurn]
    /\ snapshot = NoFile
    /\ threads = [t \in Threads |-> Idle]

StoreTurnConfig == current_turn < MaxConfigTurns /\ StoreTurn

NextConfig == StoreTurnConfig

SpecConfig == InitConfig /\ [][NextConfig]_vars

----------------------------------------------------------------------------
(* Search by entity.  ids are positions counted from 0, so the memory with
   id mid is looked up as the (mid + 1)-th of the list. *)

(* Faulty variant of search_by_entity: the index is read with [entity] *)
SearchByEntityStrict(mems, index, entity) ==
    IF entity \notin DOMAIN index
    THEN [results |-> <<>>, raised |-> TRUE]
    ELSE LET InList(mid) == mid < Len(mems)
             memory_ids == SelectSeq(index[entity], InList)
         IN  [results |-> [k \in 1..Len(memory_ids) |->
                              mems[memory_ids[k] + 1]],
              raised |-> FALSE]

(* LongTermMemory.search_by_entity *)
SearchByEntity(mems, index, entity) ==
    LET InList(mid) == mid < Len(mems)
        listed == IF entity \in DOMAIN index THEN index[entity] ELSE <<>>
        memory_ids == SelectSeq(listed, InList)
    IN  [results |-> [k \in 1..Len(memory_ids) |-> mems[memory_ids[k] + 1]],
         raised |-> FALSE]

(* The short-term entries search_by_entity_only adds, in list order *)
ShortTermHits(compressed_turns, entity) ==
    LET Hit(turn) ==
            Lower(entity) \in { Lower(e) : e \in Range(GetEntities(turn)) }
        hits == SelectSeq(compressed_turns, Hit)
    IN  [k \in 1..Len(hits) |->
            [turn_number |-> hits[k].turn_number,
             summary |-> hits[k].compressed_summary,
             entities |-> hits[k].entities,
             source |-> "short_term"]]

(* Faulty variant of search_by_entity_only: the hits are appended to the
   list of the long-term tier itself *)
SearchByEntityOnlyInPlace(compressed_turns, mems, index, entity) ==
    LET found == SearchByEntity(mems, index, entity)
        hits == ShortTermHits(compressed_turns, entity)
    IN  [results |-> found.results \o hits,
         raised |-> found.raised,
         memories |-> mems \o hits]

(* HybridRetriever.search_by_entity_only: the list search_by_entity built
   is a new one, and the short-term hits are appended to it; `memories` is
   the long-term list after the call *)
SearchByEntityOnly(compressed_turns, mems, index, entity) ==
    LET found == SearchByEntity(mems, index, entity)
    IN  [results |-> IF found.raised THEN <<>>
                     ELSE found.results \o ShortTermHits(compressed_turns,
                                                         entity),
         raised |-> found.raised,
         memories |-> mems]

(* The entities a caller may search for: two that turns are stored with
   and one that no turn has *)
EntityQueries == {"Q3", "revenue", "budget"}

SearchEntity ==
    /\ \E entity \in EntityQueries :
          LET r == SearchByEntityOnly(short_term, memories, entity_index,
                                      entity)
          IN  /\ returned' = [op |-> "search_by_entity_only",
                              entity |-> entity,
                              results |-> r.results,
                              raised |-> r.raised]
              /\ memories' = r.memories
    /\ UNCHANGED <<current_turn, sensory, short_term, entity_index,
                   sensory_max_turns, short_max_turns, max_memories,
                   ingested, trace, last_step, snapshot, threads>>

(* The two colder tiers driven as store_turn drives them, by a client that
   hands compress_and_store turns that still carry their entities: the
   counter is advanced, the turn is condensed, and the entry pushed out of
   the short-term tier is archived *)
CondenseDirect ==
    /\ current_turn < MaxSearchTurns
    /\ \E ents \in EntityLists,
          o1 \in {Raises, Returns(<<"asked", "revenue">>)},
          o2 \in UltraOutcomes :
          LET turn_data == [turn_number |-> current_turn + 1,
                            user_message |-> <<"hi">>,
                            assistant_response |-> <<"yo">>,
                            tool_output |-> <<>>,
                            entities |-> ents]
              st == ShortTermStore(short_term, short_max_turns, turn_data, o1)
              lt == IF Promoted(st.promoted)
                    THEN ArchiveTurn(memories, entity_index, max_memories,
                                     st.promoted, o2)
                    ELSE [memories |-> memories,
                          entity_index |-> entity_index,
                          discarded |-> NoTurn]
          IN  /\ current_turn' = current_turn + 1
              /\ short_term' = st.compressed_turns
              /\ memories' = lt.memories
              /\ entity_index' = lt.entity_index
              /\ returned' = [op |-> "compress_and_store", raised |-> FALSE]
    /\ UNCHANGED <<sensory, sensory_max_turns, short_max_turns, max_memories,
                   ingested, trace, last_step, snapshot, threads>>

NextSearch == CondenseDirect \/ SearchEntity \/ Retrieve

(* Tiers built with capacities (1, 1, 1) or (2, 1, 2) *)
InitSearch == Init /\ short_max_turns = 1

SpecSearch == InitSearch /\ [][NextSearch]_vars

----------------------------------------------------------------------------
(* _entity_overlap on its own: called with the entities of a candidate and
   the entities of a query *)

EntityNames == {"Q3", "q3", "Acme"}

(* Lists of at most n entities *)
RECURSIVE EntityListsUpTo(_)
EntityListsUpTo(n) ==
    IF n = 0 THEN { <<>> }
    ELSE LET shorter == EntityListsUpTo(n - 1)
         IN  shorter \cup
             { Append(list, e) : list \in { l \in shorter : Len(l) = n - 1 },
                                 e \in EntityNames }

EntityOverlapCall ==
    /\ \E entities1 \in EntityListsUpTo(MaxEntities),
          entities2 \in EntityListsUpTo(MaxEntities) :
          returned' = [op |-> "_entity_overlap",
                       entities1 |-> entities1,
                       entities2 |-> entities2,
                       score |-> EntityOverlap(entities1, entities2)]
    /\ UNCHANGED <<current_turn, sensory, short_term, memories, entity_index,
                   sensory_max_turns, short_max_turns, max_memories,
                   ingested, trace, last_step, snapshot, threads>>

NextOverlap == EntityOverlapCall

InitOverlap ==
    /\ Init
    /\ sensory_max_turns = DefaultSensoryMaxTurns
    /\ short_max_turns = DefaultShortMaxTurns

SpecOverlap == InitOverlap /\ [][NextOverlap]_vars

----------------------------------------------------------------------------
(* Several callers on one ThreeTierMemorySystem.  No method takes a lock, so
   a thread may be switched out between two statements of store_turn: after
   reading the counter for `self.current_turn += 1`, after writing it back,
   after sensory.store, and while llm_compressor.generate runs inside
   compress_and_store and archive_turn.  Each thread keeps its own locals:
   the value read, turn_data, and the entry a tier handed back. *)

AllIdle == \A t \in Threads : threads[t].pc = "idle"

EndStoreTurn(t) ==
    /\ threads' = [threads EXCEPT ![t] = Idle]
    /\ returned' = [op |-> "store_turn", raised |-> FALSE, thread |-> t]

(* store_turn, line 286, first half: self.current_turn is read *)
BeginStoreTurn(t) ==
    /\ threads[t].pc = "idle"
    /\ Len(ingested) < MaxThreadCalls
    /\ \E inp \in TurnInputs :
          /\ threads' = [threads EXCEPT ![t] =
                            [pc |-> "incrementing", inp |-> inp,
                             loaded |-> current_turn]]
          /\ ingested' = Append(ingested, inp)
    /\ UNCHANGED <<current_turn, sensory, short_term, memories, entity_index,
                   sensory_max_turns, short_max_turns, max_memories,
                   trace, last_step, returned, snapshot>>

(* store_turn, line 286, second half: the value read plus one is written *)
IncrementTurn(t) ==
    /\ threads[t].pc = "incrementing"
    /\ current_turn' = threads[t].loaded + 1
    /\ threads' = [threads EXCEPT ![t] =
                      [pc |-> "storing", inp |-> threads[t].inp]]
    /\ UNCHANGED <<sensory, short_term, memories, entity_index,
                   sensory_max_turns, short_max_turns, max_memories,
                   ingested, trace, last_step, returned, snapshot>>

(* store_turn, lines 288-300: turn_data takes the counter as it is now,
   and sensory.store appends and pops *)
StoreInSensory(t) ==
    /\ threads[t].pc = "storing"
    /\ LET turn_data == [turn_number |-> current_turn,
                         user_message |-> threads[t].inp.user_message,
                         assistant_response |->
                             threads[t].inp.assistant_response,
                         tool_output |-> <<>>,
                         entities |-> threads[t].inp.entities]
           s == SensoryStore(sensory, sensory_max_turns, turn_data)
       IN  /\ sensory' = s.turns
           /\ IF Promoted(s.promoted)
              THEN /\ threads' = [threads EXCEPT ![t] =
                                     [pc |-> "compressing",
                                      promoted |-> s.promoted]]
                   /\ UNCHANGED returned
              ELSE EndStoreTurn(t)
    /\ UNCHANGED <<current_turn, short_term, memories, entity_index,
                   sensory_max_turns, short_max_turns, max_memories,
                   ingested, trace, last_step, snapshot>>

(* store_turn, lines 301-307: generate has answered, and compress_and_store
   appends and pops *)
CompressAndStore(t) ==
    /\ threads[t].pc = "compressing"
    /\ \E o1 \in SummarizerOutcomes :
          LET st == ShortTermStore(short_term, short_max_turns,
                                   threads[t].promoted, o1)
          IN  /\ short_term' = st.compressed_turns
              /\ IF Promoted(st.promoted)
                 THEN /\ threads' = [threads EXCEPT ![t] =
                                        [pc |-> "archiving",
                                         promoted |-> st.promoted]]
                      /\ UNCHANGED returned
                 ELSE EndStoreTurn(t)
    /\ UNCHANGED <<current_turn, sensory, memories, entity_index,
                   sensory_max_turns, short_max_turns, max_memories,
                   ingested, trace, last_step, snapshot>>

(* store_turn, lines 308-311: generate has answered, and archive_turn
   appends, indexes and discards *)
ArchivePromoted(t) ==
    /\ threads[t].pc = "archiving"
    /\ \E o2 \in UltraOutcomes :
          LET lt == ArchiveTurn(memories, entity_index, max_memories,
                                threads[t].promoted, o2)
          IN  /\ memories' = lt.memories
              /\ entity_index' = lt.entity_index
    /\ EndStoreTurn(t)
    /\ UNCHANGED <<current_turn, sensory, short_term,
                   sensory_max_turns, short_max_turns, max_memories,
                   ingested, trace, last_step, snapshot>>

NextThreads ==
    \E t \in Threads :
        \/ BeginStoreTurn(t)
        \/ IncrementTurn(t)
        \/ StoreInSensory(t)
        \/ CompressAndStore(t)
        \/ ArchivePromoted(t)

(* Two callers of store_turn on a system built with capacities (1, 1, 1) *)
InitThreads == Init /\ sensory_max_turns = 1 /\ max_memories = 1

SpecThreads == InitThreads /\ [][NextThreads]_vars

(* Callers that make their store_turn calls one after the other, and a
   reader that is not held back: _get_candidate_memories walks the
   short-term and the long-term list as they are at that moment *)
BeginStoreTurnAlone(t) == AllIdle /\ BeginStoreTurn(t)

ReadCandidates ==
    /\ returned' =
          [op |-> "_get_candidate_memories",
           turn_numbers |->
              LET candidates == GetCandidateMemories(short_term, memories)
              IN  [i \in 1..Len(candidates) |-> candidates[i].turn_number]]
    /\ UNCHANGED <<current_turn, sensory, short_term, memories, entity_index,
                   sensory_max_turns, short_max_turns, max_memories,
                   ingested, trace, last_step, snapshot, threads>>

NextReaders ==
    \/ \E t \in Threads :
          \/ BeginStoreTurnAlone(t)
          \/ IncrementTurn(t)
          \/ StoreInSensory(t)
          \/ CompressAndStore(t)
          \/ ArchivePromoted(t)
    \/ ReadCandidates

SpecReaders == InitThreads /\ [][NextReaders]_vars

----------------------------------------------------------------------------
(* Properties *)

TurnNumbers(entries) == [i \in 1..Len(entries) |-> entries[i].turn_number]

Consecutive(lo, hi) == [i \in 1..(hi - lo + 1) |-> lo + i - 1]

Min(a, b) == IF a < b THEN a ELSE b
Max(a, b) == IF a > b THEN a ELSE b

(* C1: Entity Index consistency.  An id is listed under entity e iff an
   ArchivedMemory with that id is resident and lists e: no dangling ids,
   no missing ids. *)
C1_EntityIndexConsistent ==
    /\ \A e \in DOMAIN entity_index :
          \A k \in 1..Len(entity_index[e]) :
             \E i \in 1..Len(memories) :
                /\ memories[i].id = entity_index[e][k]
                /\ e \in Range(memories[i].entities)
    /\ \A i \in 1..Len(memories) :
          \A e \in Range(memories[i].entities) :
             /\ e \in DOMAIN entity_index
             /\ memories[i].id \in Range(entity_index[e])

(* C2: the entities given to store_turn are the entities of the turn's
   CondensedEntry and of its ArchivedMemory, and are in the Entity Index. *)
C2_EntitiesPreserved ==
    /\ \A i \in 1..Len(short_term) :
          short_term[i].entities = ingested[short_term[i].turn_number].entities
    /\ \A i \in 1..Len(memories) :
          /\ memories[i].entities = ingested[memories[i].turn_number].entities
          /\ \A e \in Range(ingested[memories[i].turn_number].entities) :
                /\ e \in DOMAIN entity_index
                /\ memories[i].id \in Range(entity_index[e])

(* C3: after N <= capacity(Immediate) store_turn calls the Condensed and
   Archive Tiers are empty and get_recent_context holds all N turns
   verbatim, in turn_number order. *)
C3_WithinImmediateCapacity ==
    current_turn <= sensory_max_turns =>
        /\ short_term = <<>>
        /\ memories = <<>>
        /\ GetRecentContext.compressed = <<>>
        /\ GetRecentContext.immediate =
              [i \in 1..current_turn |->
                  <<"Turn", i, "Recent",
                    "User", ingested[i].user_message,
                    "Assistant", ingested[i].assistant_response>>]

C3_Witness ==
    /\ sensory_max_turns = 2
    /\ current_turn = 2
    /\ Len(GetRecentContext.immediate) = 2

(* C4: after store_turn each tier holds at most its capacity, so at most
   cap(Immediate)+cap(Condensed)+cap(Archive) turns are held in total. *)
C4_TiersWithinCapacity ==
    /\ Len(sensory) <= sensory_max_turns
    /\ Len(short_term) <= short_max_turns
    /\ Len(memories) <= max_memories
    /\ Len(sensory) + Len(short_term) + Len(memories)
          <= sensory_max_turns + short_max_turns + max_memories

C4_Witness ==
    /\ current_turn > sensory_max_turns + short_max_turns + max_memories
    /\ Len(sensory) = sensory_max_turns
    /\ Len(short_term) = short_max_turns
    /\ Len(memories) = max_memories

(* C5: every Archive turn_number is smaller than every Condensed
   turn_number, which is smaller than every Immediate turn_number. *)
C5_GlobalOrdering ==
    /\ \A i \in 1..Len(memories), j \in 1..Len(short_term) :
          memories[i].turn_number < short_term[j].turn_number
    /\ \A i \in 1..Len(short_term), j \in 1..Len(sensory) :
          short_term[i].turn_number < sensory[j].turn_number
    /\ \A i \in 1..Len(memories), j \in 1..Len(sensory) :
          memories[i].turn_number < sensory[j].turn_number

C5_Witness ==
    /\ Len(memories) = 2
    /\ Len(short_term) = 2
    /\ Len(sensory) = 2

(* C6: each turn_number occurs in at most one tier and at most once in it;
   a promoted entry leaves its source tier and enters the next. *)
AllTurnNumbers ==
    TurnNumbers(memories) \o TurnNumbers(short_term) \o TurnNumbers(sensory)

C6_NoDuplicateTurn ==
    /\ \A i, j \in 1..Len(AllTurnNumbers) :
          AllTurnNumbers[i] = AllTurnNumbers[j] => i = j
    /\ last_step.from_sensory # 0 =>
          /\ last_step.from_sensory \notin Range(TurnNumbers(sensory))
          /\ last_step.from_sensory \in Range(TurnNumbers(short_term))
                                        \cup Range(TurnNumbers(memories))
    /\ last_step.from_short_term # 0 =>
          /\ last_step.from_short_term \notin Range(TurnNumbers(short_term))
          /\ last_step.from_short_term \in Range(TurnNumbers(memories))
                \cup {last_step.discarded.turn_number}

C6_Witness ==
    /\ last_step.from_sensory # 0
    /\ last_step.from_short_term # 0
    /\ Len(memories) >= 1

(* C7: with capacities (k, m, A), after N turns the Immediate Tier holds
   the last min(N,k) turn numbers, the Condensed Tier the min(max(N-k,0),m)
   before those, the Archive Tier the min(max(N-k-m,0),A) before those;
   with (2,2,10) and N=5: {4,5}, {2,3}, {1}. *)
C7_TierContents ==
    LET N == current_turn
        k == sensory_max_turns
        m == short_max_turns
        A == max_memories
        inImmediate == Min(N, k)
        inCondensed == Min(Max(N - k, 0), m)
        inArchive == Min(Max(N - k - m, 0), A)
    IN  /\ TurnNumbers(sensory) = Consecutive(N - inImmediate + 1, N)
        /\ TurnNumbers(short_term) =
              Consecutive(N - inImmediate - inCondensed + 1, N - inImmediate)
        /\ TurnNumbers(memories) =
              Consecutive(N - inImmediate - inCondensed - inArchive + 1,
                          N - inImmediate - inCondensed)
        /\ (k = 2 /\ m = 2 /\ A = 10 /\ N = 5) =>
              /\ TurnNumbers(sensory) = <<4, 5>>
              /\ TurnNumbers(short_term) = <<2, 3>>
              /\ TurnNumbers(memories) = <<1>>

C7_Witness ==
    /\ sensory_max_turns = 2 /\ short_max_turns = 2 /\ max_memories = 10
    /\ current_turn = 5
    /\ Len(memories) = 1

(* C8: after N > capacity(Immediate) store_turn calls, N - capacity turns
   have been evicted from the Immediate Tier, and each eviction appended
   exactly one Condensed entry. *)
C8_EvictionCount ==
    /\ current_turn > sensory_max_turns =>
          trace.sensory_evictions = current_turn - sensory_max_turns
    /\ trace.condensed_appends = trace.sensory_evictions

C8_Witness ==
    /\ current_turn >= sensory_max_turns + 3
    /\ trace.condensed_appends >= 3

(* C9: every Condensed entry has compressed_tokens <= original_tokens,
   whatever the summarizer returns and under the truncation fallback. *)
C9_CompressedNotLonger ==
    \A i \in 1..Len(short_term) :
        /\ short_term[i].compressed_tokens
              = TokenCount(short_term[i].compressed_summary)
        /\ short_term[i].compressed_tokens <= short_term[i].original_tokens

(* C10: when archive_turn exceeds max_memories, the entry it discards has
   the smallest turn_number among the entries then resident. *)
C10_ArchiveFifo ==
    last_step.discarded # NoTurn =>
        /\ Len(memories) = max_memories
        /\ \A i \in 1..Len(memories) :
              last_step.discarded.turn_number < memories[i].turn_number

C10_Witness ==
    /\ last_step.discarded # NoTurn
    /\ Len(memories) >= 2

(* C11: when a store_turn call has ended, by returning or by raising, the
   newest turn carries the counter's number and every entry the call took
   out of a tier has been inserted in the next one (or, from the Archive
   Tier, discarded): no cascade, one level or the full cascade, never a
   part of one. *)
C11_CascadeAtomic ==
    returned.op = "store_turn" =>
        /\ sensory # <<>>
        /\ sensory[Len(sensory)].turn_number = current_turn
        /\ last_step.from_sensory # 0 =>
              last_step.from_sensory \in Range(TurnNumbers(short_term))
                  \cup {last_step.from_short_term}
        /\ last_step.from_short_term # 0 =>
              last_step.from_short_term \in Range(TurnNumbers(memories))
                  \cup {last_step.discarded.turn_number}

(* C12: when the summarizer raises on an evicted turn, store_turn returns
   normally and the turn is in the Condensed Tier with the labelled source
   text cut to int(compression_ratio * its length) tokens. *)
C12_RaiseFallsBack ==
    (returned.op = "store_turn" /\ returned.summarizer = "raise") =>
        LET tn == last_step.from_sensory
            source == LabelledTurn(ingested[tn].user_message,
                                   ingested[tn].assistant_response)
            target == (Len(source) * CompressionRatioNum)
                          \div CompressionRatioDen
        IN  /\ ~returned.raised
            /\ \E i \in 1..Len(short_term) :
                  /\ short_term[i].turn_number = tn
                  /\ short_term[i].compressed_summary
                        = [j \in 1..target |-> source[j]]
                  /\ short_term[i].compressed_tokens = target

C12_Witness ==
    /\ returned.op = "store_turn"
    /\ returned.summarizer = "raise"
    /\ ~returned.raised
    /\ Len(short_term) >= 1
    /\ Len(short_term[Len(short_term)].compressed_summary) = 6

(* C13: when the summarizer returns an empty text or no text, the cascade
   still completes: the evicted turn is resident in the next tier, with a
   non-empty text. *)
C13_UnusableResultFallsBack ==
    /\ \A i \in 1..Len(short_term) : short_term[i].compressed_summary # <<>>
    /\ \A i \in 1..Len(memories) : memories[i].ultra_summary # <<>>
    /\ (returned.op = "store_turn" /\ last_step.from_sensory # 0) =>
          /\ ~returned.raised
          /\ last_step.from_sensory \in Range(TurnNumbers(short_term))
                \cup Range(TurnNumbers(memories))

(* C14: export_state followed by load_state of that file gives back the
   three tiers, the Entity Index and the turn counter as they were
   immediately before the export. *)
C14_RoundTrip ==
    (returned.op = "load_state" /\ returned.file = "intact") =>
        /\ ~returned.raised
        /\ TierState = snapshot.state_at_export

C14_Witness ==
    /\ returned.op = "load_state"
    /\ returned.file = "intact"
    /\ Len(short_term) = 1
    /\ Len(ingested) > current_turn

(* C15: load_state of a file with a malformed or missing field raises and
   leaves the turn counter, the three tiers and the Entity Index as they
   were. *)
C15_ImportAllOrNothing ==
    [][ (returned'.op = "load_state" /\ returned'.file # "intact")
            => (returned'.raised /\ UNCHANGED TierState) ]_vars

(* Retrieval *)

ResultScore(i) ==
    ComputeHybridScore(returned.results[i], returned.clues, returned.weights,
                       current_turn)

(* C18: the results of retrieve_context are in descending order of final
   score, and of two results with equal final score the one with the larger
   turn_number comes first, whatever non-negative weights the retriever was
   built with *)
C18_DescendingScoreThenRecent ==
    returned.op = "retrieve_context" =>
        \A i \in 1..(Len(returned.results) - 1) :
            LET d == ScoreDifference(ResultScore(i), ResultScore(i + 1))
            IN  \/ d > 0
                \/ /\ d = 0
                   /\ returned.results[i].turn_number
                        > returned.results[i + 1].turn_number

(* The scenario of C19: five turns ingested, only turn 3 with the entity
   Q3, a query naming Q3 and sharing no word with any candidate, default
   weights, all or the first two results asked for *)
C19_Scenario ==
    /\ current_turn = 5
    /\ Len(ingested) = 5
    /\ \A n \in 1..5 : (ingested[n].entities = <<"Q3">>) <=> (n = 3)
    /\ returned.op = "retrieve_context"
    /\ returned.clues.entities = <<"Q3">>
    /\ returned.weights = DefaultWeights
    /\ returned.max_results \in {2, 5}

(* C19: in that scenario turn 3 is the first result and its score is
   above the score of every other candidate *)
C19_EntityTurnRankedFirst ==
    C19_Scenario =>
        LET candidates == GetCandidateMemories(short_term, memories)
            Score(c) == ComputeHybridScore(c, returned.clues,
                                           returned.weights, current_turn)
        IN  /\ returned.results # <<>>
            /\ returned.results[1].turn_number = 3
            /\ \A i \in 1..Len(candidates) :
                  candidates[i].turn_number # 3 =>
                     ScoreDifference(Score(returned.results[1]),
                                     Score(candidates[i])) > 0

C19_Witness ==
    /\ C19_Scenario
    /\ TurnNumbers(short_term) = <<2, 3>>
    /\ TurnNumbers(memories) = <<1>>
    /\ Len(returned.results) >= 2

(* C20 as stated: retrieve_context returns exactly min(top_k, number of
   candidates) results, for every integer top_k *)
C20_ExactlyMinTopK ==
    returned.op = "retrieve_context" =>
        Len(returned.results) = Min(returned.max_results, returned.candidates)

(* C20, amended: retrieve_context returns min(top_k, number of candidates)
   results for top_k >= 0, and for a negative top_k all candidates but the
   last -top_k of the ranking (none if there are fewer) *)
C20_ResultCount ==
    returned.op = "retrieve_context" =>
        Len(returned.results) =
            IF returned.max_results >= 0
            THEN Min(returned.max_results, returned.candidates)
            ELSE Max(returned.candidates + returned.max_results, 0)

C20_Witness ==
    /\ returned.op = "retrieve_context"
    /\ returned.max_results = -1
    /\ returned.candidates = 3
    /\ Len(returned.results) = 2

(* Concurrency *)

(* C16: two store_turn calls never interleave, so once no call is in
   flight the state is the one the calls give when run one after the other:
   the counter equals the number of calls, and the turns held by the tiers,
   coldest first, carry consecutive turn numbers ending at the counter *)
C16_SerialOutcome ==
    AllIdle =>
        LET all == AllTurnNumbers
        IN  /\ current_turn = Len(ingested)
            /\ \A i \in 1..(Len(all) - 1) : all[i + 1] = all[i] + 1
            /\ all # <<>> => all[Len(all)] = current_turn

(* C17: a reader never runs while a store_turn is in flight, and so never
   sees a turn taken out of one tier and not yet put into the next: the
   turn numbers it finds in the short-term and long-term lists have no gap *)
C17_ReaderSeesNoGap ==
    returned.op = "_get_candidate_memories" =>
        LET seen == Range(returned.turn_numbers)
        IN  \A a \in seen, b \in seen : \A c \in a..b : c \in seen

(* Entity score *)

(* Two entities are the same but for the case of their letters *)
SameEntity(a, b) == Lower(a) = Lower(b)

(* C23: with no entity in the query every candidate, one without recorded
   entities included, gets the entity score 1/2 *)
C23_NeutralWithoutQueryEntities ==
    (returned.op = "_entity_overlap" /\ returned.entities2 = <<>>) =>
        /\ returned.score.num * 2 = returned.score.den
        /\ returned.score.num > 0

C23_Witness ==
    /\ returned.op = "_entity_overlap"
    /\ returned.entities2 = <<>>
    /\ returned.entities1 = <<>>
    /\ returned.score = [num |-> 1, den |-> 2]

(* C24: with at least one entity in the query the entity score is the
   share of the query's entities found among the candidate's, letter case
   set aside: between 0 and 1, 0 for a candidate without entities, 1 when
   every entity of the query is found *)
C24_ShareOfQueryEntities ==
    (returned.op = "_entity_overlap" /\ returned.entities2 # <<>>) =>
        LET candidate == Range(returned.entities1)
            query == Range(returned.entities2)
            found == { q \in query : \E c \in candidate : SameEntity(c, q) }
            score == returned.score
            (* query entities counted once per spelling-insensitive name *)
            Names(set) == { { r \in set : SameEntity(r, q) } : q \in set }
        IN  /\ score.den > 0
            /\ score.num * Cardinality(Names(query))
                  = Cardinality(Names(found)) * score.den
            /\ 0 <= score.num /\ score.num <= score.den
            /\ candidate = {} => score.num = 0
            /\ found = query => score.num = score.den

C24_Witness ==
    /\ returned.op = "_entity_overlap"
    /\ returned.entities1 = <<"Q3">>
    /\ returned.entities2 = <<"q3", "Acme">>
    /\ returned.score = [num |-> 1, den |-> 2]

(* Search and retrieval as reads *)

(* C21: retrieve_context and search_by_entity_only leave the three tiers,
   the Entity Index and the turn counter as they were *)
C21_RetrievalReadOnly ==
    [][returned'.op \in {"retrieve_context", "search_by_entity_only"}
          => UNCHANGED TierState]_vars

C21_Witness ==
    /\ returned.op = "search_by_entity_only"
    /\ Len(returned.results) >= 2
    /\ \E k \in 1..Len(returned.results) :
          "source" \in DOMAIN returned.results[k]

(* C26: search_by_entity_only returns exactly the resident archived
   memories and condensed entries whose entities contain the entity asked
   for, also once the long-term tier has discarded memories *)
C26_SearchFindsResidentEntries ==
    returned.op = "search_by_entity_only" =>
        LET entity == returned.entity
            archived == { memories[i] : i \in
                            { j \in 1..Len(memories) :
                                entity \in Range(memories[j].entities) } }
            condensed == { short_term[i].turn_number : i \in
                            { j \in 1..Len(short_term) :
                                entity \in Range(short_term[j].entities) } }
            found == Range(returned.results)
        IN  /\ { r \in found : "source" \notin DOMAIN r } = archived
            /\ { r.turn_number : r \in { q \in found : "source" \in DOMAIN q } }
                 = condensed
            /\ Len(returned.results)
                 = Cardinality(archived) + Cardinality(condensed)

(* C27: retrieve_context with nothing in the short-term and long-term
   tiers returns an empty list and does not raise; search_by_entity_only
   for an entity that is no key of the index and is carried by no condensed
   entry returns an empty list and does not raise *)
C27_EmptyNotError ==
    /\ (returned.op = "retrieve_context" /\ returned.candidates = 0) =>
          returned.results = <<>> /\ ~returned.raised
    /\ (/\ returned.op = "search_by_entity_only"
        /\ returned.entity \notin DOMAIN entity_index
        /\ \A i \in 1..Len(short_term) :
              \A e \in Range(short_term[i].entities) :
                 ~SameEntity(e, returned.entity)) =>
          returned.results = <<>> /\ ~returned.raised

C27_Witness ==
    /\ returned.op = "search_by_entity_only"
    /\ returned.entity = "budget"
    /\ "Q3" \in DOMAIN entity_index
    /\ memories # <<>>
    /\ returned.results = <<>>

(* C22: two retrieve_context calls in a row, the tiers not touched in
   between, with the same clues, entities, max_results and weights return
   the same list in the same order *)
C22_RetrievalDeterministic ==
    [][(/\ returned.op = "retrieve_context"
        /\ returned'.op = "retrieve_context"
        /\ returned'.clues = returned.clues
        /\ returned'.max_results = returned.max_results
        /\ returned'.weights = returned.weights
        /\ UNCHANGED TierState)
          => returned'.results = returned.results]_vars

(* Two results with the same score were returned *)
C22_Witness ==
    /\ returned.op = "retrieve_context"
    /\ Len(returned.results) >= 2
    /\ ScoreDifference(ResultScore(1), ResultScore(2)) = 0

(* What a candidate must carry of the entry it stands for *)
CandidateOf(turn_number, text, entities, source) ==
    [turn_number |-> turn_number, summary |-> text, entities |-> entities,
     source |-> source]

(* C25: the candidates of retrieve_context are one record for every
   condensed entry and every archived memory resident, with the entry's
   turn_number, text, entities and tier, and no turn of the sensory tier
   is among them (seen when all candidates are asked for) *)
C25_CandidatePool ==
    (returned.op = "retrieve_context" /\ returned.max_results = 5) =>
        LET got == { CandidateOf(r.turn_number, r.summary, r.entities,
                                 r.source) : r \in Range(returned.results) }
            condensed == { CandidateOf(e.turn_number, e.compressed_summary,
                                       e.entities, "short_term") :
                              e \in Range(short_term) }
            archived == { CandidateOf(m.turn_number, m.ultra_summary,
                                      m.entities, "long_term") :
                             m \in Range(memories) }
        IN  /\ got = condensed \cup archived
            /\ Len(returned.results) = Len(short_term) + Len(memories)
            /\ \A r \in Range(returned.results) :
                  r.turn_number \notin Range(TurnNumbers(sensory))

C25_Witness ==
    /\ returned.op = "retrieve_context"
    /\ returned.max_results = 5
    /\ Len(sensory) = 2
    /\ Len(short_term) = 2
    /\ Len(memories) = 1
    /\ Len(returned.results) = 3

(* Recent context *)

(* The turn numbers of a context, in the order the turns appear in it *)
TurnsOf(context) ==
    [i \in 1..Len(context.immediate) |-> context.immediate[i][2]]
    \o [i \in 1..Len(context.compressed) |-> context.compressed[i][2]]

Ascending(numbers) ==
    \A i \in 1..(Len(numbers) - 1) : numbers[i] < numbers[i + 1]

(* C30 as stated: get_recent_context gives the sensory turns verbatim,
   then the condensed entries, and the turns appear in it in ascending
   turn_number order *)
C30_Chronological ==
    returned.op = "get_recent_context" => Ascending(TurnsOf(returned.context))

(* C30, amended: get_recent_context gives every sensory turn verbatim in
   ascending turn_number order, followed by every condensed entry with its
   compressed text in ascending turn_number order; the condensed entries,
   which come second, are the older turns *)
C30_TwoAscendingParts ==
    returned.op = "get_recent_context" =>
        LET context == returned.context
        IN  /\ Len(context.immediate) = Len(sensory)
            /\ \A i \in 1..Len(sensory) :
                  /\ context.immediate[i][2] = sensory[i].turn_number
                  /\ context.immediate[i][5] = sensory[i].user_message
                  /\ context.immediate[i][7] = sensory[i].assistant_response
            /\ Len(context.compressed) = Len(short_term)
            /\ \A i \in 1..Len(short_term) :
                  /\ context.compressed[i][2] = short_term[i].turn_number
                  /\ context.compressed[i][4]
                       = short_term[i].compressed_summary
            /\ Ascending(TurnNumbers(sensory))
            /\ Ascending(TurnNumbers(short_term))
            /\ Ascending([i \in 1..Len(context.immediate) |->
                             context.immediate[i][2]])
            /\ \A i \in 1..Len(context.compressed) :
                  \A j \in 1..Len(context.immediate) :
                     context.compressed[i][2] < context.immediate[j][2]

C30_Witness ==
    /\ returned.op = "get_recent_context"
    /\ Len(returned.context.immediate) = 2
    /\ Len(returned.context.compressed) = 2

(* Configuration *)

(* C28: a tier capacity that is not positive is refused when the tiers are
   built, so no store_turn is ever run on such tiers: the only call that
   has returned is the construction, and it raised *)
C28_InvalidConfigurationRejected ==
    (sensory_max_turns <= 0 \/ short_max_turns <= 0 \/ max_memories <= 0) =>
        returned.op # "store_turn" /\ current_turn = 0

(* Turn numbering *)

(* C29: every store_turn call advances the counter by one and stores its
   turn, as the newest of the sensory tier, under the new value, which is
   the number of calls made so far; the counter never goes down *)
C29_ConsecutiveTurnNumbers ==
    [][/\ current_turn' >= current_turn
       /\ returned'.op = "store_turn" =>
             /\ current_turn' = current_turn + 1
             /\ current_turn' = Len(ingested')
             /\ sensory' # <<>>
             /\ sensory'[Len(sensory')].turn_number = current_turn']_vars

C29_Witness ==
    /\ returned.op = "store_turn"
    /\ current_turn = 3
    /\ Len(ingested) = 3
    /\ sensory[Len(sensory)].turn_number = 3

(* Archive ids and index entries *)

(* C31: no two resident ArchivedMemory entries have the same id, also
   after the Archive Tier has discarded entries *)
C31_ResidentIdsDistinct ==
    \A i, j \in 1..Len(memories) :
        memories[i].id = memories[j].id => i = j

(* How often entity e is listed in an index *)
Listed(index, e) == IF e \in DOMAIN index THEN Len(index[e]) ELSE 0

(* C32: an archive_turn call that discards the oldest ArchivedMemory
   removes that memory's index entries and no others: under every entity
   the list grows by the entry of the memory just added and shrinks by the
   entry of the memory discarded, nothing else *)
C32_OnlyDiscardedEntriesRemoved ==
    [][last_step'.discarded # NoTurn /\ memories' # memories =>
          LET added == memories'[Len(memories')]
              gone == last_step'.discarded
          IN  \A e \in DOMAIN entity_index' :
                 Listed(entity_index', e) =
                     Listed(entity_index, e)
                       + Bit(e \in Range(added.entities))
                       - Bit(e \in Range(gone.entities))]_vars

(* The cascade of one call *)

TurnSet(entries) == { entries[i].turn_number : i \in 1..Len(entries) }

(* C33: a store_turn call takes at most one entry out of each tier; the
   entry taken out of the sensory tier and the one taken out of the
   short-term tier is older than every entry left there; the short-term
   tier gets an entry only if one left the sensory tier, and then that one,
   and the long-term tier only if one left the short-term tier, and then
   that one *)
C33_OneStepCascade ==
    [][current_turn' # current_turn =>
          LET out1 == (TurnSet(sensory) \cup {current_turn'})
                         \ TurnSet(sensory')
              in2  == TurnSet(short_term') \ TurnSet(short_term)
              out2 == (TurnSet(short_term) \cup in2) \ TurnSet(short_term')
              in3  == TurnSet(memories') \ TurnSet(memories)
              out3 == (TurnSet(memories) \cup in3) \ TurnSet(memories')
          IN  /\ Cardinality(out1) <= 1
              /\ Cardinality(out2) <= 1
              /\ Cardinality(out3) <= 1
              /\ \A n \in out1 : \A m \in TurnSet(sensory') : n < m
              /\ \A n \in out2 : \A m \in TurnSet(short_term') : n < m
              /\ in2 \subseteq out1
              /\ in3 \subseteq out2]_vars

C33_Witness ==
    /\ returned.op = "store_turn"
    /\ last_step.from_sensory # 0
    /\ last_step.from_short_term # 0
    /\ last_step.discarded # NoTurn
    /\ Len(sensory) = sensory_max_turns
    /\ Len(short_term) = short_max_turns

(* C34: conservation of turns.  The number of store_turn calls made equals
   the number of entries in the three tiers plus the number of entries the
   long-term tier has discarded, and the long-term tier has discarded
   entries only if it is full *)
C34_TurnsConserved ==
    /\ current_turn = Len(ingested)
    /\ Len(ingested) =
          Len(sensory) + Len(short_term) + Len(memories)
            + trace.archive_discards
    /\ trace.archive_discards > 0 => Len(memories) = max_memories

(* Turn numbers and the counter *)

(* C35: after store_turn calls every resident turn number is at most the
   counter, the newest sensory entry carries the counter, and every
   retrieval candidate has a turn number below the counter, so that the
   distance _recency_score works with is not negative and the score is at
   most 1 *)
C35_CandidatesOlderThanCounter ==
    /\ \A n \in TurnSet(sensory) \cup TurnSet(short_term)
                  \cup TurnSet(memories) : n <= current_turn
    /\ current_turn > 0 =>
          /\ sensory # <<>>
          /\ sensory[Len(sensory)].turn_number = current_turn
    /\ LET candidates == GetCandidateMemories(short_term, memories)
       IN  \A k \in 1..Len(candidates) :
              /\ candidates[k].turn_number < current_turn
              /\ current_turn - candidates[k].turn_number >= 0
              /\ RecencyScore(candidates[k].turn_number, current_turn)
                    <= RecencyUnit
              /\ RecencyScore(candidates[k].turn_number, current_turn) > 0

C35_Witness ==
    /\ current_turn = 4
    /\ short_term # <<>>
    /\ memories # <<>>
    /\ \E k \in 1..Len(GetCandidateMemories(short_term, memories)) :
          GetCandidateMemories(short_term, memories)[k].turn_number = 1

(* Fallback of the long-term tier *)

(* C36: when the summarizer raises during ultra-compression, the entry
   pushed out of the short-term tier is archived all the same, and its
   text is the source text cut to the target length of the long-term
   tier, one-twentieth of the length of the source (rounded up) *)
C36_UltraFallbackCutsToTarget ==
    [][current_turn' # current_turn /\ returned'.ultra = "raise" =>
          LET source == short_term[1]
              text == source.compressed_summary
              target == (TokenCount(text) + 19) \div 20
              archived == memories'[Len(memories')]
          IN  /\ archived.turn_number = source.turn_number
              /\ archived.ultra_summary = Truncate(text, target)]_vars

----------------------------------------------------------------------------
(* The entity index and the statistics.  The colder tiers are driven as in
   CondenseDirect, with entities that are written in either case. *)

MaxIndexTurns == 3      \* turns in a run with index lookups and statistics

CasedEntityLists == { <<>>, <<"Q3">>, <<"q3">> }

CasedQueries == {"Q3", "q3"}

CondenseCased ==
    /\ current_turn < MaxIndexTurns
    /\ \E ents \in CasedEntityLists, o2 \in UltraOutcomes :
          LET turn_data == [turn_number |-> current_turn + 1,
                            user_message |-> <<"hi">>,
                            assistant_response |-> <<"yo">>,
                            tool_output |-> <<>>,
                            entities |-> ents]
              st == ShortTermStore(short_term, short_max_turns, turn_data,
                                   Returns(<<"asked", "revenue">>))
              lt == IF Promoted(st.promoted)
                    THEN ArchiveTurn(memories, entity_index, max_memories,
                                     st.promoted, o2)
                    ELSE [memories |-> memories,
                          entity_index |-> entity_index,
                          discarded |-> NoTurn]
          IN  /\ current_turn' = current_turn + 1
              /\ short_term' = st.compressed_turns
              /\ memories' = lt.memories
              /\ entity_index' = lt.entity_index
              /\ returned' = [op |-> "compress_and_store", raised |-> FALSE]
    /\ UNCHANGED <<sensory, sensory_max_turns, short_max_turns, max_memories,
                   ingested, trace, last_step, snapshot, threads>>

(* LongTermMemory.search_by_entity called by a client *)
SearchLongTerm ==
    /\ \E entity \in CasedQueries :
          LET found == SearchByEntity(memories, entity_index, entity)
          IN  returned' = [op |-> "search_by_entity",
                           entity |-> entity,
                           results |-> found.results,
                           raised |-> found.raised]
    /\ UNCHANGED <<current_turn, sensory, short_term, memories, entity_index,
                   sensory_max_turns, short_max_turns, max_memories,
                   ingested, trace, last_step, snapshot, threads>>

(* sum(turn[key] for turn in turns) *)
RECURSIVE TokenSum(_, _)
TokenSum(turns, key) ==
    IF turns = <<>> THEN 0
    ELSE Head(turns)[key] + TokenSum(Tail(turns), key)

(* ThreeTierMemorySystem.get_memory_stats *)
GetMemoryStats ==
    [current_turn |-> current_turn,
     sensory_turns |-> Len(sensory),
     sensory_tokens |-> TokenSum(sensory, "tokens"),
     shortterm_turns |-> Len(short_term),
     shortterm_tokens |-> TokenSum(short_term, "compressed_tokens"),
     longterm_memories |-> Len(memories),
     longterm_tokens |-> TokenSum(memories, "tokens"),
     total_active_tokens |-> TokenSum(sensory, "tokens")
                               + TokenSum(short_term, "compressed_tokens"),
     entities_tracked |-> Cardinality(DOMAIN entity_index)]

MemoryStats ==
    /\ returned' = [op |-> "get_memory_stats", stats |-> GetMemoryStats,
                    raised |-> FALSE]
    /\ UNCHANGED <<current_turn, sensory, short_term, memories, entity_index,
                   sensory_max_turns, short_max_turns, max_memories,
                   ingested, trace, last_step, snapshot, threads>>

NextIndex == CondenseCased \/ SearchLongTerm \/ MemoryStats

(* Tiers built with capacities (1, 1, 1) or (2, 1, 2) *)
InitIndex == Init /\ short_max_turns = 1

SpecIndex == InitIndex /\ [][NextIndex]_vars

----------------------------------------------------------------------------
(* Properties of the entity index and of the statistics *)

(* C37: the Entity Index is keyed by case-normalized entities: no two keys
   differ only in letter case, and search_by_entity returns the same
   memories for every casing of the entity *)
C37_IndexIgnoresCase ==
    /\ \A e1, e2 \in DOMAIN entity_index :
          Lower(e1) = Lower(e2) => e1 = e2
    /\ returned.op = "search_by_entity" =>
          \A other \in CasedQueries :
             Lower(other) = Lower(returned.entity) =>
                SearchByEntity(memories, entity_index, other).results
                   = returned.results

(* The entities listed by at least one resident ArchivedMemory *)
ResidentEntities ==
    UNION { Range(memories[i].entities) : i \in 1..Len(memories) }

(* C38: get_memory_stats changes nothing; the turn count it reports is the
   counter, the occupancies are the numbers of entries in the tiers, and
   the number of entities tracked is the number of distinct entities that
   resident ArchivedMemory entries list *)
C38_StatsSnapshot ==
    [][returned'.op = "get_memory_stats" =>
          /\ UNCHANGED TierState
          /\ returned'.stats.current_turn = current_turn
          /\ returned'.stats.sensory_turns = Len(sensory)
          /\ returned'.stats.shortterm_turns = Len(short_term)
          /\ returned'.stats.longterm_memories = Len(memories)
          /\ returned'.stats.entities_tracked
                = Cardinality(ResidentEntities)]_vars

----------------------------------------------------------------------------
(* _semantic_similarity on its own: called with two texts *)

Texts ==
    { <<>>,
      <<"the", "was">>,
      <<"Q3">>,
      <<"q3">>,
      <<"Q3", "revenue">>,
      <<"what", "was", "revenue">>,
      <<"revenue", "was", "5M", "in", "Q3">>,
      <<"asked", "revenue">>,
      <<"the", "user", "asked", "what", "the", "revenue", "was">>,
      <<"User", ":", "hi", "\n", "Assistant", ":", "yo">>,
      <<"hi", " ">>,
      <<"Acme", "budget">> }

SemanticSimilarityCall ==
    /\ \E text1 \in Texts, text2 \in Texts :
          returned' = [op |-> "_semantic_similarity",
                       text1 |-> text1,
                       text2 |-> text2,
                       score |-> SemanticSimilarity(text1, text2)]
    /\ UNCHANGED <<current_turn, sensory, short_term, memories, entity_index,
                   sensory_max_turns, short_max_turns, max_memories,
                   ingested, trace, last_step, snapshot, threads>>

NextSimilarity == SemanticSimilarityCall

SpecSimilarity == InitOverlap /\ [][NextSimilarity]_vars

----------------------------------------------------------------------------
(* Properties of the two overlap scores *)

(* C39: entities added to a candidate that are not among the query's
   entities leave the entity score as it is: a candidate with extra
   unrelated entities scores like the candidate without them *)
C39_ExtraEntitiesNeutral ==
    returned.op = "_entity_overlap" =>
        \A extra \in EntityNames :
           Lower(extra) \notin { Lower(e) : e \in Range(returned.entities2) }
             => LET more == EntityOverlap(Append(returned.entities1, extra),
                                          returned.entities2)
                IN  /\ more.den > 0
                    /\ more.num * returned.score.den
                          = returned.score.num * more.den

C39_Witness ==
    /\ returned.op = "_entity_overlap"
    /\ returned.entities1 = <<"Q3">>
    /\ returned.entities2 = <<"q3">>
    /\ returned.score.num = returned.score.den
    /\ EntityOverlap(<<"Q3", "Acme">>, <<"q3">>).num = 1

(* The words of a text that count: lower-cased, stop words removed *)
ContentWords(text) == SplitLower(text) \ StopWords

(* C40: the textual score is |A n B| / |A u B| for the lower-cased word
   sets A, B of the two texts without the stop words; it is 0 when A or B
   is empty, lies between 0 and 1, and is the same with the two texts
   exchanged *)
C40_JaccardOfContentWords ==
    returned.op = "_semantic_similarity" =>
        LET A == ContentWords(returned.text1)
            B == ContentWords(returned.text2)
            score == returned.score
            swapped == SemanticSimilarity(returned.text2, returned.text1)
        IN  /\ score.den > 0
            /\ 0 <= score.num /\ score.num <= score.den
            /\ (A = {} \/ B = {}) => score.num = 0
            /\ (A # {} /\ B # {}) =>
                  score.num * Cardinality(A \cup B)
                     = Cardinality(A \cap B) * score.den
            /\ swapped.den > 0
            /\ swapped.num * score.den = score.num * swapped.den

C40_Witness ==
    /\ returned.op = "_semantic_similarity"
    /\ returned.text1 = <<"what", "was", "revenue">>
    /\ returned.text2 = <<"revenue", "was", "5M", "in", "Q3">>
    /\ returned.score = [num |-> 1, den |-> 4]

====
